---------------------------- MODULE Spec2Model ----------------------------
(***************************************************************************)
(* A model of the DFSM class of src/src/DFSM.ts: the constructor (set      *)
(* normalisation, expansion of short-hand transition entries, validation   *)
(* of q0 and F, the final completeness check that also finds the sink      *)
(* nodes) and the two queries read and test.                               *)
(*                                                                         *)
(* JavaScript objects are modelled with their identity.  The transition    *)
(* table handed to the constructor is one object (the variables keys and   *)
(* delta: its own keys in Object.keys order and the value under each key); *)
(* every per-state map literal is an object of the heap, named by the      *)
(* table key that first refers to it, so that two entries may refer to the *)
(* same map.  The constructor stores the caller's table itself             *)
(* (this.δ = δ) and completes short-hand maps in place, so the model has a *)
(* single table and a single heap, shared by the caller and the instance;  *)
(* args remembers the table as it was supplied.                            *)
(*                                                                         *)
(* State labels are strings that name no inherited property of a           *)
(* JavaScript object, and symbols are single characters, as the type       *)
(* parameters of the class intend.                                         *)
(***************************************************************************)
EXTENDS Integers, Sequences, FiniteSets, TLC

\* ---------------------------------------------------------------- universe

\* state labels the caller may use (in Q, as targets, as q0, in F, as keys)
Labels == {"q0", "e"}
\* characters the caller may use in the alphabet and as keys of a map
Chars == {"0", "1"}
\* Object.keys lists integer-like keys in ascending numeric order
CharOrder == <<"0", "1">>
\* the alphabet of the substring automaton of the tests
Alphabet ==
    <<"a", "b", "c", "d", "e", "f", "g", "h", "i", "j", "k", "l", "m",
      "n", "o", "p", "q", "r", "s", "t", "u", "v", "w", "x", "y", "z">>
\* Object.keys lists the other keys after the integer-like ones, in the
\* order they were written: the map literals of the model that have such
\* keys write s last
KeyOrder ==
    CharOrder \o <<"c", "r", "i", "p", "t", "s">>
              \o SelectSeq(Alphabet, LAMBDA c :
                              c \notin {"c", "r", "i", "p", "t", "s"})

\* longest raw state list, alphabet list, accept list and query input
MaxQ == 2
MaxSigma == 2
MaxF == 2
MaxInput == 2

\* the value of a property that is not there
Undef == "undefined"

SeqsUpTo(S, n) == UNION {[1..k -> S] : k \in 0..n}

\* a map literal { char: state, ... }: Undef marks a key that is absent
Maps == [Chars -> Labels \cup {Undef}]
EmptyMap == [c \in Chars |-> Undef]

\* the value under a key of the table: nothing; a map object (full form);
\* or the two-element array [map object, default state] (short-hand form)
NoEntry == [kind |-> "undefined"]
ObjectEntry(m) == [kind |-> "object", m |-> m]
PairEntry(m, d) == [kind |-> "pair", m |-> m, d |-> d]
Entries == {NoEntry} \cup {ObjectEntry(m) : m \in Labels}
             \cup {PairEntry(m, d) : m \in Labels, d \in Labels}

\* a value that is not a string, where a state label is expected: a number
NonString == "number 7"
\* a value under a key of the table that is no object (a string, a number,
\* a boolean), and one that is an array of another length than two
ScalarEntry == [kind |-> "scalar"]
ListEntry(items) == [kind |-> "list", items |-> items]

\* ------------------------------------------------------------------ errors

NoErr == [kind |-> "none"]
\* `The state "${state}" is not part of the Q!`
ErrState(s) == [kind |-> "state_not_in_Q", state |-> s]
\* `The symbol ${char} is not part of the Σ!`
ErrChar(c) == [kind |-> "symbol_not_in_Sigma", char |-> c]
\* `δ is incomplete: δ["${state}"] is missing from the FSM transition table!`
ErrMissingState(s) == [kind |-> "missing_state", state |-> s]
\* `δ is incomplete: δ["${state}"]["${input_symbol}"] is missing ...`
ErrMissingTransition(s, a) ==
    [kind |-> "missing_transition", state |-> s, char |-> a]
\* `δ is ambiguous: δ["${state}"]["${input_symbol}"] points to an invalid state ...`
ErrAmbiguous(s, a, n) ==
    [kind |-> "ambiguous", state |-> s, char |-> a, next |-> n]

\* `δ[${q}] points to an invalid entry!`
ErrInvalidEntry(s) == [kind |-> "invalid_entry", state |-> s]

\* the TypeError of reading a property of undefined
ErrType == [kind |-> "TypeError"]

\* `${q0} is an invalid initial state because it doesn't belong to the FSM!`
\* (the earliest variant)
ErrInitial(s) == [kind |-> "invalid_initial_state", state |-> s]

\* `δ is incomplete: δ["${q}"]["${a}"] points to an invalid data type ...`
\* (the single-pass variant)
ErrInvalidTarget(s, a) ==
    [kind |-> "invalid_target", state |-> s, char |-> a]

\* ------------------------------------------------------- pure helper code

Includes(list, x) == \E i \in 1..Len(list) : list[i] = x

RECURSIVE DedupFrom(_, _, _)
DedupFrom(list, i, acc) ==
    IF i > Len(list) THEN acc
    ELSE DedupFrom(list, i + 1,
                   IF Includes(acc, list[i]) THEN acc ELSE Append(acc, list[i]))

\* A faulty normalisation, against which C9 is tested: repetitions are kept.
Dedup_KeepAll(list) == list

\* Array.from(new Set(list)): a Set keeps the first occurrence, in order
Dedup(list) == DedupFrom(list, 1, <<>>)

\* A faulty validate_state, against which C6 is tested: it never throws.
validate_state_Never(Qn, state) == TRUE

\* validate_state: does the call return (TRUE) or throw ErrState (FALSE)
validate_state(Qn, state) == \E i \in 1..Len(Qn) : Qn[i] = state

\* validate_char: does the call return (TRUE) or throw ErrChar (FALSE)
validate_char(Sn, char) == \E i \in 1..Len(Sn) : Sn[i] = char

\* Object.keys of a map object
RECURSIVE MapKeysFrom(_, _)
MapKeysFrom(map, i) ==
    IF i > Len(KeyOrder) THEN <<>>
    ELSE (IF KeyOrder[i] \in DOMAIN map /\ map[KeyOrder[i]] # Undef
          THEN <<KeyOrder[i]>> ELSE <<>>)
            \o MapKeysFrom(map, i + 1)

MapKeys(map) == MapKeysFrom(map, 1)


\* ------------------------------------------------------- the constructor

\* A faulty callback, against which C33 is tested: the keys of the map are
\* not looked up in Σ.
RECURSIVE FirstKeyError_AnyChar(_, _, _, _, _)
FirstKeyError_AnyChar(map, ks, i, Qn, Sn) ==
    IF i > Len(ks) THEN NoErr
    ELSE IF ~validate_state(Qn, map[ks[i]]) THEN ErrState(map[ks[i]])
    ELSE FirstKeyError_AnyChar(map, ks, i + 1, Qn, Sn)

\* the callback of Object.keys(state_transitions).map in
\* complete_state_transitions: the error of the first key that fails
RECURSIVE FirstKeyError(_, _, _, _, _)
FirstKeyError(map, ks, i, Qn, Sn) ==
    IF i > Len(ks) THEN NoErr
    ELSE IF ~validate_char(Sn, ks[i]) THEN ErrChar(ks[i])
    ELSE IF ~validate_state(Qn, map[ks[i]]) THEN ErrState(map[ks[i]])
    ELSE FirstKeyError(map, ks, i + 1, Qn, Sn)

\* A faulty filling loop, against which C30 is tested: the symbols that
\* were keys of the map are set to the default state as well.
RECURSIVE FillFrom_Overwrite(_, _, _, _, _)
FillFrom_Overwrite(map, provided_inputs, default_transition_state, Sn, i) ==
    IF i > Len(Sn) THEN map
    ELSE FillFrom_Overwrite([map EXCEPT ![Sn[i]] = default_transition_state],
                            provided_inputs, default_transition_state,
                            Sn, i + 1)

\* the filling loop of complete_state_transitions: every symbol of Σ that
\* was not a key of the map is set to the default state
RECURSIVE FillFrom(_, _, _, _, _)
FillFrom(map, provided_inputs, default_transition_state, Sn, i) ==
    IF i > Len(Sn) THEN map
    ELSE FillFrom(IF Includes(provided_inputs, Sn[i]) THEN map
                  ELSE [map EXCEPT ![Sn[i]] = default_transition_state],
                  provided_inputs, default_transition_state, Sn, i + 1)

\* A faulty expansion, against which C15 is tested: the default state is
\* validated after the keys of the map.
complete_state_transitions_DefaultLast(hp, m, default_transition_state, Qn, Sn) ==
    LET provided_inputs == MapKeys(hp[m])
        e == FirstKeyError(hp[m], provided_inputs, 1, Qn, Sn)
    IN  IF e.kind # "none" THEN [err |-> e, heap |-> hp]
        ELSE IF ~validate_state(Qn, default_transition_state)
        THEN [err |-> ErrState(default_transition_state), heap |-> hp]
        ELSE [err |-> NoErr,
              heap |-> [hp EXCEPT ![m] =
                  FillFrom(hp[m], provided_inputs,
                           default_transition_state, Sn, 1)]]

\* complete_state_transitions on the map object m of the heap: the error it
\* throws (or none) and the heap it leaves
complete_state_transitions(hp, m, default_transition_state, Qn, Sn) ==
    IF ~validate_state(Qn, default_transition_state)
    THEN [err |-> ErrState(default_transition_state), heap |-> hp]
    ELSE LET provided_inputs == MapKeys(hp[m])
             e == FirstKeyError(hp[m], provided_inputs, 1, Qn, Sn)
         IN  IF e.kind # "none" THEN [err |-> e, heap |-> hp]
             ELSE [err |-> NoErr,
                   heap |-> [hp EXCEPT ![m] =
                       FillFrom(hp[m], provided_inputs,
                                default_transition_state, Sn, 1)]]

\* Object.keys(δ).map(validate_state): the error of the first key not in Q
RECURSIVE FirstStateError(_, _, _)
FirstStateError(ks, i, Qn) ==
    IF i > Len(ks) THEN NoErr
    ELSE IF ~validate_state(Qn, ks[i]) THEN ErrState(ks[i])
    ELSE FirstStateError(ks, i + 1, Qn)

\* the loop of complete_δ over the provided states: a value that is no
\* object is refused, a two-element array is completed in place and
\* replaced, in the table, by its map, and every other value is kept
RECURSIVE CompleteFrom(_, _, _, _, _, _)
CompleteFrom(ks, i, dl, hp, Qn, Sn) ==
    IF i > Len(ks) THEN [err |-> NoErr, delta |-> dl, heap |-> hp]
    ELSE LET q == ks[i]
             t == dl[q]
         IN  IF t.kind = "scalar"
             THEN [err |-> ErrInvalidEntry(q), delta |-> dl, heap |-> hp]
             ELSE IF t.kind = "pair"
             THEN LET r == complete_state_transitions(hp, t.m, t.d, Qn, Sn)
                  IN  IF r.err.kind # "none"
                      THEN [err |-> r.err, delta |-> dl, heap |-> hp]
                      ELSE CompleteFrom(ks, i + 1,
                                        [dl EXCEPT ![q] = ObjectEntry(t.m)],
                                        r.heap, Qn, Sn)
             ELSE CompleteFrom(ks, i + 1, dl, hp, Qn, Sn)

\* A faulty complete_δ, against which C32 is tested: the keys of the table
\* are validated after the entries have been completed.
complete_delta_KeysLast(ks, dl, hp, Qn, Sn) ==
    LET c == CompleteFrom(ks, 1, dl, hp, Qn, Sn)
        e == FirstStateError(ks, 1, Qn)
    IN  IF c.err.kind # "none" THEN c
        ELSE [err |-> e, delta |-> c.delta, heap |-> c.heap]

\* complete_δ: the error it throws (or none) and the table and heap it leaves
complete_delta(ks, dl, hp, Qn, Sn) ==
    LET e == FirstStateError(ks, 1, Qn)
    IN  IF e.kind # "none" THEN [err |-> e, delta |-> dl, heap |-> hp]
        ELSE CompleteFrom(ks, 1, dl, hp, Qn, Sn)

\* δ[state]: the value found under a key of the table
Entry(dl, state) == IF state \in DOMAIN dl THEN dl[state] ELSE NoEntry

\* the index a character has as a property name of an array
CharIndex(a) == CHOOSE i \in 1..Len(CharOrder) : CharOrder[i] = a

\* transitions[input_symbol] for the value found under a key of the table:
\* a property of a map object, or an item of an array
Get(hp, t, a) ==
    IF t.kind = "object" THEN hp[t.m][a]
    ELSE IF t.kind = "list" /\ CharIndex(a) <= Len(t.items)
    THEN t.items[CharIndex(a)]
    ELSE Undef

\* A faulty inner loop, against which C1 is tested: it does not check
\* that the next state belongs to Q.
RECURSIVE SymbolsFrom_NoClosure(_, _, _, _, _, _, _)
SymbolsFrom_NoClosure(state, transitions, hp, Qn, Sn, j, is_sink_node) ==
    IF j > Len(Sn) THEN [err |-> NoErr, is_sink_node |-> is_sink_node]
    ELSE LET input_symbol == Sn[j]
             next_state == Get(hp, transitions, input_symbol)
         IN  IF next_state = Undef
             THEN [err |-> ErrMissingTransition(state, input_symbol),
                   is_sink_node |-> FALSE]
             ELSE SymbolsFrom_NoClosure(state, transitions, hp, Qn, Sn, j + 1,
                                        is_sink_node /\ next_state = state)

\* A faulty inner loop, against which C2 is tested: the last symbol alone
\* decides whether the state is a sink node.
RECURSIVE SymbolsFrom_LastSymbol(_, _, _, _, _, _, _)
SymbolsFrom_LastSymbol(state, transitions, hp, Qn, Sn, j, is_sink_node) ==
    IF j > Len(Sn) THEN [err |-> NoErr, is_sink_node |-> is_sink_node]
    ELSE LET input_symbol == Sn[j]
             next_state == Get(hp, transitions, input_symbol)
         IN  IF next_state = Undef
             THEN [err |-> ErrMissingTransition(state, input_symbol),
                   is_sink_node |-> FALSE]
             ELSE IF ~Includes(Qn, next_state)
             THEN [err |-> ErrAmbiguous(state, input_symbol, next_state),
                   is_sink_node |-> FALSE]
             ELSE SymbolsFrom_LastSymbol(state, transitions, hp, Qn, Sn,
                                         j + 1, next_state = state)

\* A faulty inner loop, against which C29 is tested: a state is a sink node
\* only if the loop has seen a symbol.
RECURSIVE SymbolsFrom_NeedsLoop(_, _, _, _, _, _, _)
SymbolsFrom_NeedsLoop(state, transitions, hp, Qn, Sn, j, is_sink_node) ==
    IF j > Len(Sn)
    THEN [err |-> NoErr, is_sink_node |-> is_sink_node /\ Len(Sn) > 0]
    ELSE LET input_symbol == Sn[j]
             next_state == Get(hp, transitions, input_symbol)
         IN  IF next_state = Undef
             THEN [err |-> ErrMissingTransition(state, input_symbol),
                   is_sink_node |-> FALSE]
             ELSE IF ~Includes(Qn, next_state)
             THEN [err |-> ErrAmbiguous(state, input_symbol, next_state),
                   is_sink_node |-> FALSE]
             ELSE SymbolsFrom_NeedsLoop(state, transitions, hp, Qn, Sn,
                      j + 1, is_sink_node /\ next_state = state)

\* A faulty inner loop, against which C28 is tested: the first symbol alone
\* decides whether the state is a sink node.
RECURSIVE SymbolsFrom_FirstSymbol(_, _, _, _, _, _, _)
SymbolsFrom_FirstSymbol(state, transitions, hp, Qn, Sn, j, is_sink_node) ==
    IF j > Len(Sn) THEN [err |-> NoErr, is_sink_node |-> is_sink_node]
    ELSE LET input_symbol == Sn[j]
             next_state == Get(hp, transitions, input_symbol)
         IN  IF next_state = Undef
             THEN [err |-> ErrMissingTransition(state, input_symbol),
                   is_sink_node |-> FALSE]
             ELSE IF ~Includes(Qn, next_state)
             THEN [err |-> ErrAmbiguous(state, input_symbol, next_state),
                   is_sink_node |-> FALSE]
             ELSE SymbolsFrom_FirstSymbol(state, transitions, hp, Qn, Sn,
                      j + 1, is_sink_node /\ (j > 1 \/ next_state = state))

\* the inner loop of #δ_final_check for one state: the error of the first
\* symbol that fails, and whether the state is a sink node
RECURSIVE SymbolsFrom(_, _, _, _, _, _, _)
SymbolsFrom(state, transitions, hp, Qn, Sn, j, is_sink_node) ==
    IF j > Len(Sn) THEN [err |-> NoErr, is_sink_node |-> is_sink_node]
    ELSE LET input_symbol == Sn[j]
             next_state == Get(hp, transitions, input_symbol)
         IN  IF next_state = Undef
             THEN [err |-> ErrMissingTransition(state, input_symbol),
                   is_sink_node |-> FALSE]
             ELSE IF ~Includes(Qn, next_state)
             THEN [err |-> ErrAmbiguous(state, input_symbol, next_state),
                   is_sink_node |-> FALSE]
             ELSE SymbolsFrom(state, transitions, hp, Qn, Sn, j + 1,
                              is_sink_node /\ next_state = state)

\* the outer loop of #δ_final_check over Q
RECURSIVE StatesFrom(_, _, _, _, _, _)
StatesFrom(dl, hp, Qn, Sn, i, sinks) ==
    IF i > Len(Qn) THEN [err |-> NoErr, sink_nodes |-> sinks]
    ELSE LET state == Qn[i]
             transitions == Entry(dl, state)
         IN  IF transitions.kind = "undefined"
             THEN [err |-> ErrMissingState(state), sink_nodes |-> <<>>]
             ELSE LET r == SymbolsFrom(state, transitions, hp, Qn, Sn, 1, TRUE)
                  IN  IF r.err.kind # "none"
                      THEN [err |-> r.err, sink_nodes |-> <<>>]
                      ELSE StatesFrom(dl, hp, Qn, Sn, i + 1,
                                      IF r.is_sink_node
                                      THEN Append(sinks, state) ELSE sinks)

\* A faulty final check, against which C12 is tested: it walks Q from its
\* last state to its first.
delta_final_check_Backwards(dl, hp, Qn, Sn) ==
    StatesFrom(dl, hp, [i \in 1..Len(Qn) |-> Qn[Len(Qn) + 1 - i]], Sn, 1, <<>>)

\* #δ_final_check: the error it throws (or none) and the sink nodes it finds
delta_final_check(dl, hp, Qn, Sn) == StatesFrom(dl, hp, Qn, Sn, 1, <<>>)

\* A faulty validation of F, against which C10 is tested: the accept states
\* are not validated.
FirstAcceptError_None(Fn, i, Qn) == NoErr

\* Array.from(new Set(F)).map(validate_state): the first element not in Q
RECURSIVE FirstAcceptError(_, _, _)
FirstAcceptError(Fn, i, Qn) ==
    IF i > Len(Fn) THEN NoErr
    ELSE IF ~validate_state(Qn, Fn[i]) THEN ErrState(Fn[i])
    ELSE FirstAcceptError(Fn, i + 1, Qn)

\* the fields of an instance whose constructor threw: none is observable
Failed(e, dl, hp) ==
    [err |-> e, Q |-> <<>>, Sigma |-> <<>>, q0 |-> Undef, F |-> <<>>,
     sink_nodes |-> <<>>, delta |-> dl, heap |-> hp]

\* the constructor: the error it throws (or none), the fields of the
\* instance, and the caller's table and heap as the call leaves them
constructor(Qa, Sa, ks, dl, hp, q0a, Fa) ==
    LET Qn == Dedup(Qa)
        Sn == Dedup(Sa)
        c == complete_delta(ks, dl, hp, Qn, Sn)
    IN  IF c.err.kind # "none" THEN Failed(c.err, c.delta, c.heap)
        ELSE IF ~validate_state(Qn, q0a)
        THEN Failed(ErrState(q0a), c.delta, c.heap)
        ELSE LET Fn == Dedup(Fa)
                 fe == FirstAcceptError(Fn, 1, Qn)
             IN  IF fe.kind # "none" THEN Failed(fe, c.delta, c.heap)
                 ELSE LET k == delta_final_check(c.delta, c.heap, Qn, Sn)
                      IN  IF k.err.kind # "none"
                          THEN Failed(k.err, c.delta, c.heap)
                          ELSE [err |-> NoErr, Q |-> Qn, Sigma |-> Sn,
                                q0 |-> q0a, F |-> Fn,
                                sink_nodes |-> k.sink_nodes,
                                delta |-> c.delta, heap |-> c.heap]

\* ------------------------------------------------------------ the queries

\* validate_input: the first character of the string that is not in Σ, as
\* the error validate_char throws for it
RECURSIVE FirstInputError(_, _, _)
FirstInputError(string, i, Sn) ==
    IF i > Len(string) THEN NoErr
    ELSE IF ~validate_char(Sn, string[i]) THEN ErrChar(string[i])
    ELSE FirstInputError(string, i + 1, Sn)

validate_input(string, Sn) == FirstInputError(string, 1, Sn)

\* A faulty loop, against which C3 is tested: it stops in an accept state
\* instead of a sink node.
RECURSIVE ReadFrom_StopAtAccept(_, _, _, _)
ReadFrom_StopAtAccept(A, parsed, i, currentState) ==
    IF i <= Len(parsed) /\ ~Includes(A.F, currentState)
    THEN IF Entry(A.delta, currentState) = NoEntry
         THEN [kind |-> "throw", err |-> ErrType]
         ELSE ReadFrom_StopAtAccept(A, parsed, i + 1,
                  Get(A.heap, Entry(A.delta, currentState), parsed[i]))
    ELSE [kind |-> "return", value |-> currentState]

\* the loop of read: one transition per character while the current state
\* is not a sink node; the state it ends in, or the TypeError of
\* this.δ[currentState][parsed[i]] when δ has nothing under currentState
RECURSIVE ReadFrom(_, _, _, _)
ReadFrom(A, parsed, i, currentState) ==
    IF i <= Len(parsed) /\ ~Includes(A.sink_nodes, currentState)
    THEN IF Entry(A.delta, currentState) = NoEntry
         THEN [kind |-> "throw", err |-> ErrType]
         ELSE ReadFrom(A, parsed, i + 1,
                       Get(A.heap, Entry(A.delta, currentState), parsed[i]))
    ELSE [kind |-> "return", value |-> currentState]

\* A faulty read, against which C7 is tested: each character is validated
\* when the loop comes to it, so that the characters after a sink are not.
RECURSIVE read_Lazy_From(_, _, _, _)
read_Lazy_From(A, in, i, currentState) ==
    IF i <= Len(in) /\ ~Includes(A.sink_nodes, currentState)
    THEN IF ~validate_char(A.Sigma, in[i])
         THEN [kind |-> "throw", err |-> ErrChar(in[i])]
         ELSE IF Entry(A.delta, currentState) = NoEntry
         THEN [kind |-> "throw", err |-> ErrType]
         ELSE read_Lazy_From(A, in, i + 1,
                  Get(A.heap, Entry(A.delta, currentState), in[i]))
    ELSE [kind |-> "return", value |-> currentState]

read_Lazy(A, in) == read_Lazy_From(A, in, 1, A.q0)

\* read: the state it returns, or the error it throws
read(A, in) ==
    LET e == validate_input(in, A.Sigma)
    IN  IF e.kind # "none" THEN [kind |-> "throw", err |-> e]
        ELSE ReadFrom(A, in, 1, A.q0)

\* A faulty test, against which C4 is tested: the final state is looked up
\* among the sink nodes instead of the accept states.
test_SinkAsAccept(A, in) ==
    LET r == read(A, in)
    IN  IF r.kind = "throw" THEN [kind |-> "return", value |-> FALSE]
        ELSE [kind |-> "return", value |-> Includes(A.sink_nodes, r.value)]

\* A faulty test, against which C5 is tested: it has no catch clause.
test_NoCatch(A, in) ==
    LET r == read(A, in)
    IN  IF r.kind = "throw" THEN r
        ELSE [kind |-> "return", value |-> Includes(A.F, r.value)]

\* test: the boolean it returns (the catch clause turns every error of
\* read into false)
test(A, in) ==
    LET r == read(A, in)
    IN  IF r.kind = "throw" THEN [kind |-> "return", value |-> FALSE]
        ELSE [kind |-> "return", value |-> Includes(A.F, r.value)]

\* ------------------------------------------------------------- the state

VARIABLES
    pc,          \* "new": no instance yet; "ready": constructed; "failed"
    keys,        \* the caller's table object, which is also this.δ: its
    delta,       \*   own keys and the value under each key
    heap,        \* the map objects the table refers to
    Q,           \* the fields of the instance
    Sigma,
    q0,
    F,
    sink_nodes,
    op,          \* the last call: "none", "construct", "read" or "test"
    args,        \* its arguments, as the caller supplied them
    result,      \* what it returned or threw
    scan         \* the locals of the invocations of read and test that are
                 \*   under way, when their steps are taken one at a time

vars == <<pc, keys, delta, heap, Q, Sigma, q0, F, sink_nodes,
          op, args, result, scan>>

\* the own keys of a table object, in insertion order
KeySeqs == {ks \in SeqsUpTo(Labels, Cardinality(Labels)) :
               \A i, j \in 1..Len(ks) : i # j => ks[i] # ks[j]}

\* a table the caller can write: the keys carry entries, every entry refers
\* to its own map object or to the map object of an earlier key, and the
\* heap holds nothing else
TableOK(ks, dl, hp) ==
    /\ \A l \in Labels : (dl[l] = NoEntry) <=> ~Includes(ks, l)
    /\ \A i \in 1..Len(ks) :
          \/ dl[ks[i]].m = ks[i]
          \/ \E j \in 1..(i - 1) : dl[ks[j]].m = ks[j] /\ dl[ks[i]].m = ks[j]
    /\ \A l \in Labels :
          (dl[l] = NoEntry \/ dl[l].m # l) => hp[l] = EmptyMap

Tables == {t \in [keys : KeySeqs, delta : [Labels -> Entries],
                  heap : [Labels -> Maps]] :
              TableOK(t.keys, t.delta, t.heap)}

\* a list without repetitions
DupFree(list) == \A i, j \in 1..Len(list) : i # j => list[i] # list[j]

\* a plain table: no map is shared, and every entry is either a full map
\* that sends every character to one state or a short-hand pair whose map
\* is empty
Plain(t) ==
    \A l \in Labels :
        \/ t.delta[l] = NoEntry
        \/ /\ t.delta[l].m = l
           /\ IF t.delta[l].kind = "pair" THEN t.heap[l] = EmptyMap
              ELSE \E d \in Labels : t.heap[l] = [c \in Chars |-> d]

\* the constructor calls of the model.  Every table is tried with every
\* state list and alphabet free of repetitions; every state list, alphabet
\* and accept list, repetitions included, is tried with every plain table.
\* (Each is a record of the sets its arguments are drawn from.)
TableCalls ==
    [Q |-> {l \in SeqsUpTo(Labels, MaxQ) : DupFree(l)},
     Sigma |-> {l \in SeqsUpTo(Chars, MaxSigma) : DupFree(l)},
     table |-> Tables, q0 |-> {"q0"}, F |-> {<<>>, <<"q0">>, <<"e">>}]

ListCalls ==
    [Q |-> SeqsUpTo(Labels, MaxQ), Sigma |-> SeqsUpTo(Chars, MaxSigma),
     table |-> {t \in Tables : Plain(t)}, q0 |-> Labels,
     F |-> SeqsUpTo(Labels, MaxF)]

\* most invocations of read and test under way at a time, and their names
MaxCalls == 2
CallIds == 1..MaxCalls
\* an invocation that has not begun
Idle == [pc |-> "idle"]

\* the query inputs: a character is outside Σ when the alphabet of the
\* instance is not all of Chars
Inputs == SeqsUpTo(Chars, MaxInput)

\* the instance, as the queries see it
This == [Q |-> Q, Sigma |-> Sigma, delta |-> delta, heap |-> heap,
         q0 |-> q0, F |-> F, sink_nodes |-> sink_nodes]

\* new DFSM(a.Q, a.Sigma, a.table, a.q0, a.F)
New(a) ==
    constructor(a.Q, a.Sigma, a.table.keys, a.table.delta, a.table.heap,
                a.q0, a.F)

Init ==
    /\ pc = "new"
    /\ keys = <<>>
    /\ delta = [l \in Labels |-> NoEntry]
    /\ heap = [l \in Labels |-> EmptyMap]
    /\ Q = <<>> /\ Sigma = <<>> /\ q0 = Undef /\ F = <<>>
    /\ sink_nodes = <<>>
    /\ op = "none" /\ args = <<>> /\ result = [kind |-> "none"]
    /\ scan = [p \in CallIds |-> Idle]

\* what a constructor call with the arguments a leaves when r is what the
\* constructor did
Left(a, r) ==
    /\ op' = "construct" /\ args' = a
    /\ result' = IF r.err.kind = "none" THEN [kind |-> "return"]
                 ELSE [kind |-> "throw", err |-> r.err]
    /\ pc' = IF r.err.kind = "none" THEN "ready" ELSE "failed"
    /\ keys' = a.table.keys /\ delta' = r.delta /\ heap' = r.heap
    /\ Q' = r.Q /\ Sigma' = r.Sigma /\ q0' = r.q0 /\ F' = r.F
    /\ sink_nodes' = r.sink_nodes
    /\ UNCHANGED scan

\* the call new DFSM(a.Q, a.Sigma, a.table, a.q0, a.F) and what it leaves
Called(a) == \E r \in {New(a)} : Left(a, r)

\* the caller writes the arguments and calls new DFSM(Q, Σ, δ, q0, F)
Construct ==
    /\ pc = "new"
    /\ \E calls \in {TableCalls, ListCalls} :
       \E Qa \in calls.Q, Sa \in calls.Sigma, t \in calls.table,
          q0a \in calls.q0, Fa \in calls.F :
          Called([Q |-> Qa, Sigma |-> Sa, table |-> t, q0 |-> q0a, F |-> Fa])

\* A faulty read, against which C18 is tested: the automaton keeps the
\* state the scan ended in and starts the next scan from it.
Read_Stateful ==
    /\ pc = "ready"
    /\ \E w \in Inputs :
       \E r \in {read(This, w)} :
          /\ op' = "read" /\ args' = w /\ result' = r
          /\ q0' = IF r.kind = "return" THEN r.value ELSE q0
    /\ UNCHANGED <<pc, keys, delta, heap, Q, Sigma, F, sink_nodes, scan>>

\* automaton.read(w)
Read ==
    /\ pc = "ready"
    /\ \E w \in Inputs :
          /\ op' = "read" /\ args' = w /\ result' = read(This, w)
    /\ UNCHANGED <<pc, keys, delta, heap, Q, Sigma, q0, F, sink_nodes, scan>>

\* automaton.test(w)
Test ==
    /\ pc = "ready"
    /\ \E w \in Inputs :
          /\ op' = "test" /\ args' = w /\ result' = test(This, w)
    /\ UNCHANGED <<pc, keys, delta, heap, Q, Sigma, q0, F, sink_nodes, scan>>

Next == Construct \/ Read \/ Test

Spec == Init /\ [][Next]_vars

\* ------------------------------------- construction from defective tables

\* the labels of the tables below: with a third label a state list of two
\* states leaves a label outside Q
DefectLabels == Labels \cup {"q1"}
\* most keys of a table below
MaxDefectKeys == 2

\* the values the caller writes under a key: a string; an empty array and
\* an array of three states; a map whose targets are absent, "q1" or a
\* number; a pair of a map whose targets are absent or "q1" and a default
DefectShapes ==
    {ScalarEntry, ListEntry(<<>>), ListEntry(<<"q1", "q1", "q1">>)}
        \cup {[kind |-> "object", map |-> m] :
                  m \in [Chars -> {Undef, "q1", NonString}]}
        \cup {[kind |-> "pair", map |-> m, d |-> d] :
                  m \in [Chars -> {Undef, "q1"}], d \in {"q0", "q1"}}

\* the table with the keys ks, in that order, and under each key l the
\* value f[l], every map being an object of its own
TableOf(ks, f) ==
    [keys |-> ks,
     delta |-> [l \in DefectLabels |->
                   IF ~Includes(ks, l) THEN NoEntry
                   ELSE IF f[l].kind = "object" THEN ObjectEntry(l)
                   ELSE IF f[l].kind = "pair" THEN PairEntry(l, f[l].d)
                   ELSE f[l]],
     heap |-> [l \in DefectLabels |->
                  IF Includes(ks, l) /\ f[l].kind \in {"object", "pair"}
                  THEN f[l].map ELSE EmptyMap]]

\* constructor calls with such a table: every non-empty state list and
\* every alphabet free of repetitions, the keys of the table in every
\* order, "e" for q0 and no accept state
DefectCalls ==
    [Q |-> {l \in SeqsUpTo(DefectLabels, Cardinality(DefectLabels)) :
               DupFree(l) /\ l # <<>>},
     Sigma |-> {l \in SeqsUpTo(Chars, MaxSigma) : DupFree(l)},
     keys |-> {l \in SeqsUpTo(DefectLabels, MaxDefectKeys) : DupFree(l)},
     q0 |-> {"e"}, F |-> {<<>>}]

ConstructDefects ==
    /\ pc = "new"
    /\ \E Qa \in DefectCalls.Q, Sa \in DefectCalls.Sigma,
          ks \in DefectCalls.keys, q0a \in DefectCalls.q0,
          Fa \in DefectCalls.F :
       \E f \in [{ks[i] : i \in 1..Len(ks)} -> DefectShapes] :
       \E t \in {TableOf(ks, f)} :
          Called([Q |-> Qa, Sigma |-> Sa, table |-> t, q0 |-> q0a, F |-> Fa])

NextDefects == ConstructDefects \/ Read \/ Test

SpecDefects == Init /\ [][NextDefects]_vars

\* ------------------------------- the caller goes on using what it passed

\* constructor calls with a plain table
PlainCalls ==
    [Q |-> {l \in SeqsUpTo(Labels, MaxQ) : DupFree(l)},
     Sigma |-> {l \in SeqsUpTo(Chars, MaxSigma) : DupFree(l)},
     table |-> {t \in Tables : Plain(t)}, q0 |-> {"q0"},
     F |-> {<<>>, <<"q0">>, <<"e">>}]

ConstructPlain ==
    /\ pc = "new"
    /\ \E Qa \in PlainCalls.Q, Sa \in PlainCalls.Sigma,
          t \in PlainCalls.table, q0a \in PlainCalls.q0,
          Fa \in PlainCalls.F :
          Called([Q |-> Qa, Sigma |-> Sa, table |-> t, q0 |-> q0a, F |-> Fa])

\* after the constructor has returned the caller assigns δ[q][a] = s in the
\* table it passed, which is the object the instance keeps as this.δ
CallerWritesTable ==
    /\ pc = "ready"
    /\ \E q \in Labels, a \in Chars, s \in Labels :
          /\ delta[q].kind = "object"
          /\ heap' = [heap EXCEPT ![delta[q].m][a] = s]
          /\ op' = "write" /\ args' = <<q, a, s>>
    /\ result' = [kind |-> "none"]
    /\ UNCHANGED <<pc, keys, delta, Q, Sigma, q0, F, sink_nodes, scan>>

\* after the constructor has returned the caller changes one of the arrays
\* it passed for Q, Σ and F, of which the instance keeps copies
\* (Array.from(new Set(...)))
CallerWritesList ==
    /\ pc = "ready"
    /\ \E l \in {"Q", "Sigma", "F"} :
          op' = "write_list" /\ args' = l
    /\ result' = [kind |-> "none"]
    /\ UNCHANGED <<pc, keys, delta, heap, Q, Sigma, q0, F, sink_nodes, scan>>

NextCaller ==
    ConstructPlain \/ Read \/ Test \/ CallerWritesTable \/ CallerWritesList

SpecCaller == Init /\ [][NextCaller]_vars

\* ------------------------------ invocations whose steps are interleaved

\* constructor calls with a full map of its own for each of two states
FullCalls ==
    [Q |-> {<<"q0", "e">>}, Sigma |-> {<<"0">>, <<"0", "1">>},
     table |-> {t \in Tables :
                   /\ t.keys = <<"q0", "e">>
                   /\ \A l \in Labels : t.delta[l] = ObjectEntry(l)},
     q0 |-> {"q0"}, F |-> {<<"e">>}]

ConstructFull ==
    /\ pc = "new"
    /\ \E Qa \in FullCalls.Q, Sa \in FullCalls.Sigma,
          t \in FullCalls.table, q0a \in FullCalls.q0,
          Fa \in FullCalls.F :
          Called([Q |-> Qa, Sigma |-> Sa, table |-> t, q0 |-> q0a, F |-> Fa])

\* what invocation `kind` hands to its caller when read ends with r: read
\* hands r on, test catches an error and looks a state up in F
Handed(kind, r) ==
    IF kind = "read" THEN r
    ELSE IF r.kind = "throw" THEN [kind |-> "return", value |-> FALSE]
    ELSE [kind |-> "return", value |-> Includes(F, r.value)]

\* an invocation that has ended (i is the loop counter as the loop left it)
Done(l, r) ==
    [pc |-> "done", kind |-> l.kind, input |-> l.input, i |-> l.i,
     result |-> Handed(l.kind, r), overlapped |-> l.overlapped]

\* the locals of an invocation after validate_input: the scan is at the
\* first character, in q0 (overlapped records whether another invocation
\* took a step while this one was under way)
Begun(kind, w) ==
    LET l == [pc |-> "scanning", kind |-> kind, input |-> w, i |-> 1,
              currentState |-> q0, overlapped |-> FALSE]
        e == validate_input(w, Sigma)
    IN  IF e.kind # "none" THEN Done(l, [kind |-> "throw", err |-> e])
        ELSE l

\* A faulty loop, against which C24 is tested: the loop condition does not
\* look at the sink nodes.
Scanned_NoSinkCheck(l) ==
    IF l.i <= Len(l.input)
    THEN IF Entry(delta, l.currentState) = NoEntry
         THEN Done(l, [kind |-> "throw", err |-> ErrType])
         ELSE [l EXCEPT !.i = l.i + 1,
                        !.currentState =
                            Get(heap, Entry(delta, l.currentState),
                                l.input[l.i])]
    ELSE Done(l, [kind |-> "return", value |-> l.currentState])

\* the locals of an invocation after one more evaluation of the loop
\* condition of read and, where it holds, of the loop body
Scanned(l) ==
    IF l.i <= Len(l.input) /\ ~Includes(sink_nodes, l.currentState)
    THEN IF Entry(delta, l.currentState) = NoEntry
         THEN Done(l, [kind |-> "throw", err |-> ErrType])
         ELSE [l EXCEPT !.i = l.i + 1,
                        !.currentState =
                            Get(heap, Entry(delta, l.currentState),
                                l.input[l.i])]
    ELSE Done(l, [kind |-> "return", value |-> l.currentState])

\* A faulty step, against which C19 is tested: the current state is kept
\* in one place for all the invocations under way.
Stepped_SharedState(sc, p) ==
    LET n == Scanned(sc[p])
    IN  [r \in CallIds |->
            IF r = p THEN n
            ELSE IF sc[r].pc = "scanning" /\ n.pc = "scanning"
            THEN [sc[r] EXCEPT !.currentState = n.currentState,
                               !.overlapped = TRUE]
            ELSE IF sc[r].pc = "scanning"
            THEN [sc[r] EXCEPT !.overlapped = TRUE]
            ELSE sc[r]]

\* the locals of all invocations after a step of invocation p: those of p
\* alone are written
Stepped(sc, p) ==
    [r \in CallIds |->
        IF r = p THEN Scanned(sc[p])
        ELSE IF sc[r].pc = "scanning"
        THEN [sc[r] EXCEPT !.overlapped = TRUE]
        ELSE sc[r]]

\* invocation p of read(w) or test(w) begins
Begin(p) ==
    /\ pc = "ready" /\ scan[p].pc = "idle"
    /\ \E kind \in {"read", "test"}, w \in Inputs :
          scan' = [scan EXCEPT ![p] = Begun(kind, w)]
    /\ UNCHANGED <<pc, keys, delta, heap, Q, Sigma, q0, F, sink_nodes,
                   op, args, result>>

\* invocation p takes a step
Step(p) ==
    /\ pc = "ready" /\ scan[p].pc = "scanning"
    /\ scan' = Stepped(scan, p)
    /\ UNCHANGED <<pc, keys, delta, heap, Q, Sigma, q0, F, sink_nodes,
                   op, args, result>>

\* the caller of invocation p has its result
Return(p) ==
    /\ pc = "ready" /\ scan[p].pc = "done"
    /\ scan' = [scan EXCEPT ![p] = Idle]
    /\ UNCHANGED <<pc, keys, delta, heap, Q, Sigma, q0, F, sink_nodes,
                   op, args, result>>

NextInterleaved ==
    \/ ConstructFull
    \/ \E p \in CallIds : Begin(p)
    \/ \E p \in CallIds : Step(p)
    \/ \E p \in CallIds : Return(p)

SpecInterleaved == Init /\ [][NextInterleaved]_vars

\* an invocation that is under way goes on: the engine runs it to its end
SpecScans ==
    SpecInterleaved /\ \A p \in CallIds : WF_vars(Step(p))

\* --------------------------------------------- the automata of the tests

\* a table literal with a full map of its own under every key
FullTable(ks, maps) ==
    [keys |-> ks,
     delta |-> [l \in DOMAIN maps |-> ObjectEntry(l)],
     heap |-> maps]

\* A000: an even number of zeroes and an odd number of ones
A000 ==
    [Q |-> <<"q0", "q1", "q2", "q3">>, Sigma |-> <<"0", "1">>,
     table |-> FullTable(<<"q0", "q1", "q2", "q3">>,
                   [q0 |-> ("0" :> "q1" @@ "1" :> "q2"),
                    q1 |-> ("0" :> "q0" @@ "1" :> "q3"),
                    q2 |-> ("0" :> "q3" @@ "1" :> "q0"),
                    q3 |-> ("0" :> "q2" @@ "1" :> "q1")]),
     q0 |-> "q0", F |-> <<"q2">>]

\* A001: empty, or zeroes and ones alternating from a zero
A001 ==
    [Q |-> <<"q0", "q1", "e">>, Sigma |-> <<"0", "1">>,
     table |-> FullTable(<<"q0", "q1", "e">>,
                   [q0 |-> ("0" :> "q1" @@ "1" :> "e"),
                    q1 |-> ("0" :> "e" @@ "1" :> "q0"),
                    e |-> ("0" :> "e" @@ "1" :> "e")]),
     q0 |-> "q0", F |-> <<"q0", "q1">>]

\* A002: the empty string only
A002 ==
    [Q |-> <<"a", "e">>, Sigma |-> <<"0", "1">>,
     table |-> FullTable(<<"a", "e">>,
                   [a |-> ("0" :> "e" @@ "1" :> "e"),
                    e |-> ("0" :> "e" @@ "1" :> "e")]),
     q0 |-> "a", F |-> <<"a">>]

\* longest input the automata of the tests are queried with
MaxTestInput == 4
TestInputs == SeqsUpTo(Chars, MaxTestInput)

ConstructTests ==
    /\ pc = "new"
    /\ \E a \in {A000, A001, A002} : Called(a)

\* automaton.read(w) and automaton.test(w) with the longer inputs
ReadTests ==
    /\ pc = "ready"
    /\ \E w \in TestInputs :
          /\ op' = "read" /\ args' = w /\ result' = read(This, w)
    /\ UNCHANGED <<pc, keys, delta, heap, Q, Sigma, q0, F, sink_nodes, scan>>

TestTests ==
    /\ pc = "ready"
    /\ \E w \in TestInputs :
          /\ op' = "test" /\ args' = w /\ result' = test(This, w)
    /\ UNCHANGED <<pc, keys, delta, heap, Q, Sigma, q0, F, sink_nodes, scan>>

NextTests == ConstructTests \/ ReadTests \/ TestTests

SpecTests == Init /\ [][NextTests]_vars

\* a short-hand map literal over the alphabet
ShortMap(literal) ==
    [c \in {Alphabet[i] : i \in 1..Len(Alphabet)} |->
        IF c \in DOMAIN literal THEN literal[c] ELSE Undef]

\* (a+z)*script(a+z)*: every entry is a short-hand pair; the keys of the
\* table are integer-like but for the last
A003 ==
    [Q |-> <<"_", "0", "1", "2", "3", "4", "5">>, Sigma |-> Alphabet,
     table |->
        [keys |-> <<"0", "1", "2", "3", "4", "5", "_">>,
         delta |-> [l \in {"_", "0", "1", "2", "3", "4", "5"} |->
                       PairEntry(l, IF l = "5" THEN "5" ELSE "_")],
         heap |-> "_" :> ShortMap("s" :> "0")
                  @@ "0" :> ShortMap("c" :> "1" @@ "s" :> "0")
                  @@ "1" :> ShortMap("r" :> "2" @@ "s" :> "0")
                  @@ "2" :> ShortMap("i" :> "3" @@ "s" :> "0")
                  @@ "3" :> ShortMap("p" :> "4" @@ "s" :> "0")
                  @@ "4" :> ShortMap("t" :> "5" @@ "s" :> "0")
                  @@ "5" :> ShortMap(<<>>)],
     q0 |-> "_", F |-> <<"5">>]

\* the word the automaton looks for
Script == <<"s", "c", "r", "i", "p", "t">>

\* the characters of the inputs: those of the word and one other
ScriptChars == {"s", "c", "r", "i", "p", "t", "a"}
\* longest input, and longest string before and after the word in an input
MaxScriptInput == 6
MaxAround == 2
\* the inputs: every string of at most n characters, and the word with
\* every string of at most m characters before and after it
ScriptInputs(n, m) ==
    SeqsUpTo(ScriptChars, n)
        \cup {x \o Script \o y : x, y \in SeqsUpTo(ScriptChars, m)}

ConstructScript == /\ pc = "new" /\ Called(A003)

\* automaton.test(w), once for an instance: a second query would start
\* from the same fields
TestScript ==
    /\ pc = "ready" /\ op = "construct"
    /\ \E w \in ScriptInputs(MaxScriptInput, MaxAround) :
          /\ op' = "test" /\ args' = w /\ result' = test(This, w)
    /\ UNCHANGED <<pc, keys, delta, heap, Q, Sigma, q0, F, sink_nodes, scan>>

NextScript == ConstructScript \/ TestScript

SpecScript == Init /\ [][NextScript]_vars

\* ------------------------------------------------ the single-pass variant
\* (src/unnamed/part_000: one private pass completes the table, checks it
\* and finds the sink nodes; read and test are those of the main source)

\* transition_states: the values of a short-hand map, in the order of its keys
TransitionStates(map) ==
    LET ks == MapKeys(map) IN [j \in 1..Len(ks) |-> map[ks[j]]]

\* the loop over transition_states in the short-hand branch: the state is
\* taken for a sink node unless a provided target differs from the default
ShorthandSink(transition_states, default_transition_state) ==
    \A j \in 1..Len(transition_states) :
        transition_states[j] = default_transition_state

\* the loop over Σ in the branch of the transitions in full
RECURSIVE FullFrom(_, _, _, _, _, _, _)
FullFrom(q, t, hp, Qn, Sn, j, sink_node) ==
    IF j > Len(Sn) THEN [err |-> NoErr, sink_node |-> sink_node]
    ELSE LET a == Sn[j]
             next_q == Get(hp, t, a)
         IN  IF next_q = Undef
             THEN [err |-> ErrMissingTransition(q, a), sink_node |-> FALSE]
             ELSE IF next_q = NonString
             THEN [err |-> ErrInvalidTarget(q, a), sink_node |-> FALSE]
             ELSE IF ~validate_state(Qn, next_q)
             THEN [err |-> ErrAmbiguous(q, a, next_q), sink_node |-> FALSE]
             ELSE FullFrom(q, t, hp, Qn, Sn, j + 1,
                           sink_node /\ next_q = q)

\* the loop of #complete_δ over Q
RECURSIVE SinglePassFrom(_, _, _, _, _, _)
SinglePassFrom(i, dl, hp, Qn, Sn, sinks) ==
    IF i > Len(Qn)
    THEN [err |-> NoErr, delta |-> dl, heap |-> hp, sink_nodes |-> sinks]
    ELSE LET q == Qn[i]
             t == Entry(dl, q)
             thrown(e) == [err |-> e, delta |-> dl, heap |-> hp,
                           sink_nodes |-> <<>>]
         IN  IF t.kind = "undefined" THEN thrown(ErrMissingState(q))
             ELSE IF t.kind = "scalar" THEN thrown(ErrInvalidEntry(q))
             ELSE IF t.kind = "pair"
             THEN LET sink_node ==
                          ShorthandSink(TransitionStates(hp[t.m]), t.d)
                      r == complete_state_transitions(hp, t.m, t.d, Qn, Sn)
                  IN  IF r.err.kind # "none" THEN thrown(r.err)
                      ELSE SinglePassFrom(i + 1,
                               [dl EXCEPT ![q] = ObjectEntry(t.m)], r.heap,
                               Qn, Sn,
                               IF sink_node THEN Append(sinks, q) ELSE sinks)
             ELSE LET r == FullFrom(q, t, hp, Qn, Sn, 1, TRUE)
                  IN  IF r.err.kind # "none" THEN thrown(r.err)
                      ELSE SinglePassFrom(i + 1, dl, hp, Qn, Sn,
                               IF r.sink_node THEN Append(sinks, q)
                               ELSE sinks)

\* the constructor of the variant
constructor_SinglePass(Qa, Sa, dl, hp, q0a, Fa) ==
    LET Qn == Dedup(Qa)
        Sn == Dedup(Sa)
        c == SinglePassFrom(1, dl, hp, Qn, Sn, <<>>)
    IN  IF c.err.kind # "none" THEN Failed(c.err, c.delta, c.heap)
        ELSE IF ~validate_state(Qn, q0a)
        THEN Failed(ErrState(q0a), c.delta, c.heap)
        ELSE LET Fn == Dedup(Fa)
                 fe == FirstAcceptError(Fn, 1, Qn)
             IN  IF fe.kind # "none" THEN Failed(fe, c.delta, c.heap)
                 ELSE [err |-> NoErr, Q |-> Qn, Sigma |-> Sn,
                       q0 |-> q0a, F |-> Fn, sink_nodes |-> c.sink_nodes,
                       delta |-> c.delta, heap |-> c.heap]

\* the caller calls the constructor of the variant, with the arguments of
\* Construct
ConstructSinglePass ==
    /\ pc = "new"
    /\ \E calls \in {TableCalls, ListCalls} :
       \E Qa \in calls.Q, Sa \in calls.Sigma, t \in calls.table,
          q0a \in calls.q0, Fa \in calls.F :
       \E r \in {constructor_SinglePass(Qa, Sa, t.delta, t.heap, q0a, Fa)} :
          Left([Q |-> Qa, Sigma |-> Sa, table |-> t, q0 |-> q0a, F |-> Fa], r)

NextSinglePass == ConstructSinglePass \/ Read \/ Test

SpecSinglePass == Init /\ [][NextSinglePass]_vars

\* --------------------------------------------------- the earliest variant
\* (src/unnamed/part_002: tables in full only; the constructor checks the
\* table and finds the sink nodes in one loop; the query is compute)

\* the loop over Σ for one state: the error of the first symbol that
\* fails, or whether the loop ran to its end (the state is a sink node)
\* or was left at the first transition to another state
RECURSIVE EarliestSymbolsFrom(_, _, _, _, _, _)
EarliestSymbolsFrom(state, transitions, hp, Qn, Sn, j) ==
    IF j > Len(Sn) THEN [err |-> NoErr, sink |-> TRUE]
    ELSE LET input_symbol == Sn[j]
             next_state == Get(hp, transitions, input_symbol)
         IN  IF next_state = Undef
             THEN [err |-> ErrMissingTransition(state, input_symbol),
                   sink |-> FALSE]
             ELSE IF ~Includes(Qn, next_state)
             THEN [err |-> ErrAmbiguous(state, input_symbol, next_state),
                   sink |-> FALSE]
             ELSE IF next_state # state THEN [err |-> NoErr, sink |-> FALSE]
             ELSE EarliestSymbolsFrom(state, transitions, hp, Qn, Sn, j + 1)

\* state_loop
RECURSIVE EarliestStatesFrom(_, _, _, _, _, _)
EarliestStatesFrom(dl, hp, Qn, Sn, i, sinks) ==
    IF i > Len(Qn) THEN [err |-> NoErr, sink_nodes |-> sinks]
    ELSE LET state == Qn[i]
             transitions == Entry(dl, state)
         IN  IF transitions.kind = "undefined"
             THEN [err |-> ErrMissingState(state), sink_nodes |-> <<>>]
             ELSE LET r == EarliestSymbolsFrom(state, transitions, hp,
                                               Qn, Sn, 1)
                  IN  IF r.err.kind # "none"
                      THEN [err |-> r.err, sink_nodes |-> <<>>]
                      ELSE EarliestStatesFrom(dl, hp, Qn, Sn, i + 1,
                               IF r.sink THEN Append(sinks, state)
                               ELSE sinks)

\* the constructor of the variant: the table is kept as it is, and the
\* accept states are not validated
constructor_Earliest(Qa, Sa, dl, hp, q0a, Fa) ==
    LET Qn == Dedup(Qa)
        Sn == Dedup(Sa)
    IN  IF ~Includes(Qn, q0a) THEN Failed(ErrInitial(q0a), dl, hp)
        ELSE LET k == EarliestStatesFrom(dl, hp, Qn, Sn, 1, <<>>)
             IN  IF k.err.kind # "none" THEN Failed(k.err, dl, hp)
                 ELSE [err |-> NoErr, Q |-> Qn, Sigma |-> Sn, q0 |-> q0a,
                       F |-> Dedup(Fa), sink_nodes |-> k.sink_nodes,
                       delta |-> dl, heap |-> hp]

\* compute: the final state and whether it is an accept state, or the
\* error thrown (stringBelongsToΣ throws for the first character outside
\* Σ; the loop is the loop of read)
compute(A, string) ==
    LET e == validate_input(string, A.Sigma)
    IN  IF e.kind # "none" THEN [kind |-> "throw", err |-> e]
        ELSE LET r == ReadFrom(A, string, 1, A.q0)
             IN  IF r.kind = "throw" THEN r
                 ELSE [kind |-> "return",
                       value |-> [final_state |-> r.value,
                                  is_accept_state |-> Includes(A.F, r.value)]]

\* the constructor calls of the variant: tables whose entries are all
\* maps in full, complete or not
EarliestCalls ==
    [Q |-> SeqsUpTo(Labels, MaxQ), Sigma |-> SeqsUpTo(Chars, MaxSigma),
     table |-> {t \in Tables :
                   \A l \in Labels : t.delta[l].kind \in {"undefined", "object"}},
     q0 |-> Labels, F |-> {<<>>, <<"q0">>, <<"e">>}]

ConstructEarliest ==
    /\ pc = "new"
    /\ \E Qa \in EarliestCalls.Q, Sa \in EarliestCalls.Sigma,
          t \in EarliestCalls.table, q0a \in EarliestCalls.q0,
          Fa \in EarliestCalls.F :
       \E r \in {constructor_Earliest(Qa, Sa, t.delta, t.heap, q0a, Fa)} :
          Left([Q |-> Qa, Sigma |-> Sa, table |-> t, q0 |-> q0a, F |-> Fa], r)

\* automaton.compute(w)
Compute ==
    /\ pc = "ready"
    /\ \E w \in Inputs :
          /\ op' = "compute" /\ args' = w /\ result' = compute(This, w)
    /\ UNCHANGED <<pc, keys, delta, heap, Q, Sigma, q0, F, sink_nodes, scan>>

NextEarliest == ConstructEarliest \/ Compute

SpecEarliest == Init /\ [][NextEarliest]_vars

\* ------------------------------------------------- notions of the claims

\* the elements of a list
Elems(list) == {list[i] : i \in 1..Len(list)}

\* δ(q, a) in the table of the instance
Delta(q, a) == Get(heap, Entry(delta, q), a)

\* the targets the supplied table names for state q on the symbols of S:
\* those listed in q's map and the default of q's short-hand pair
Named(t, q, S) ==
    LET e == t.delta[q]
    IN  IF e = NoEntry THEN {}
        ELSE ({t.heap[e.m][a] : a \in S} \ {Undef})
                \cup (IF e.kind = "pair" THEN {e.d} ELSE {})

\* the state reached from q0 by the first n characters of w, one transition
\* of the table per character and no short-circuit
RECURSIVE Run(_, _)
Run(w, n) == IF n = 0 THEN q0 ELSE Delta(Run(w, n - 1), w[n])

Constructed == op = "construct" /\ result.kind = "return"

\* ------------------------------------------------------------------ claims

C2_SinkCorrect ==
    pc = "ready" =>
       /\ Elems(sink_nodes) \subseteq Elems(Q)
       /\ \A q \in Elems(Q) :
             (q \in Elems(sink_nodes)) <=>
                (\A a \in Elems(Sigma) : Delta(q, a) = q)

\* C2 witness: of two states declared by short-hand pairs over two symbols,
\* one is a sink and the other is not
C2_Witness ==
    /\ Constructed /\ Len(Q) = 2 /\ Len(Sigma) = 2
    /\ args.table.delta["q0"].kind = "pair"
    /\ args.table.delta["e"].kind = "pair"
    /\ sink_nodes = <<"e">>
    /\ Delta("q0", "0") = "q0" /\ Delta("q0", "1") = "e"

\* C3: read(input) returns, for an input over Σ, the state obtained by
\* applying δ to every character in order from q0, without short-circuit.
C3_EarlyExit ==
    (op = "read" /\ result.kind = "return") =>
        result.value = Run(args, Len(args))

\* C3 witness: read returned after stopping in a sink that a transition
\* led to, with a character of the input left unread
C3_Witness ==
    /\ op = "read" /\ result.kind = "return" /\ Len(args) = 2
    /\ ~Includes(sink_nodes, q0)
    /\ Includes(sink_nodes, Run(args, 1))

\* every character of the input is a symbol of Σ
OverSigma(w) == \A i \in 1..Len(w) : w[i] \in Elems(Sigma)

\* C4: test(input) returns true if and only if read(input) completes, that
\* is the input is over Σ, and the state it returns, the one δ leads to
\* from q0, is a member of F; in every other case test returns false.
C4_TestMeaning ==
    op = "test" =>
        result.value = (OverSigma(args) /\ Run(args, Len(args)) \in Elems(F))

\* C4 witness: test returned true for a non-empty input, on an automaton
\* that rejects the empty input
C4_Witness ==
    /\ op = "test" /\ result.kind = "return" /\ result.value = TRUE
    /\ Len(args) = 2 /\ ~Includes(F, q0)

\* C5: test is total: for every input, also one with characters outside
\* Σ, it returns a boolean and raises no error.
C5_TestTotal ==
    op = "test" => (result.kind = "return" /\ result.value \in BOOLEAN)

\* C5 witness: test returned for an input with a character outside Σ
C5_Witness ==
    /\ op = "test" /\ result.kind = "return" /\ ~OverSigma(args)
    /\ Len(Sigma) = 1 /\ Len(args) = 2

\* C6: a state that read returns is a member of Q.
C6_ReadInQ ==
    (op = "read" /\ result.kind = "return") => result.value \in Elems(Q)

\* C6 witness: read returned a state other than q0 after two transitions
C6_Witness ==
    /\ op = "read" /\ result.kind = "return" /\ Len(args) = 2
    /\ sink_nodes = <<>> /\ result.value # q0

\* C7: read(input) fails if and only if some character of input is not in
\* Σ, and then returns no state, also when that character lies after the
\* position at which the scan would have stopped in a sink; test returns
\* false for such an input.
C7_ReadFails ==
    /\ op = "read" =>
          /\ (result.kind = "throw") <=> ~OverSigma(args)
          /\ result.kind = "throw" =>
                /\ "value" \notin DOMAIN result
                /\ result.err.kind = "symbol_not_in_Sigma"
    /\ (op = "test" /\ ~OverSigma(args)) => result.value = FALSE

\* C7 witness: read failed on an input whose first character leads into an
\* accepting sink and whose second character is outside Σ
C7_Witness ==
    /\ op = "read" /\ result.kind = "throw" /\ Len(args) = 2
    /\ args[1] \in Elems(Sigma) /\ args[2] \notin Elems(Sigma)
    /\ ~Includes(sink_nodes, q0)
    /\ Includes(sink_nodes, Run(args, 1)) /\ Includes(F, Run(args, 1))

\* the map a supplied entry stands for: the targets it lists and, for a
\* short-hand pair, its default for the symbols of S it does not list
Meant(t, q, S) ==
    LET e == t.delta[q]
        P == t.heap[e.m]
    IN  [a \in Chars |->
            IF P[a] # Undef THEN P[a]
            ELSE IF e.kind = "pair" /\ a \in S THEN e.d
            ELSE Undef]

\* the supplied table written out in full: under every key a full map of
\* its own, the one the entry stands for
Enumerated(t, S) ==
    [keys |-> t.keys,
     delta |-> [l \in Labels |->
                   IF t.delta[l] = NoEntry THEN NoEntry ELSE ObjectEntry(l)],
     heap |-> [l \in Labels |->
                  IF t.delta[l] = NoEntry THEN EmptyMap ELSE Meant(t, l, S)]]

\* an instance, from what the constructor returned
Instance(r) ==
    [Q |-> r.Q, Sigma |-> r.Sigma, delta |-> r.delta, heap |-> r.heap,
     q0 |-> r.q0, F |-> r.F, sink_nodes |-> r.sink_nodes]

\* two instances answer every query alike
SameAnswers(A, B) ==
    \A w \in Inputs : read(A, w) = read(B, w) /\ test(A, w) = test(B, w)

\* C8: for every state declared by a valid short-hand pair (P, d) the
\* completed entry maps each symbol a of Σ to P[a] when a is a key of P and
\* to d otherwise, and constructing from the short-hand table yields the
\* same completed table, the same sink set and the same read/test results
\* as constructing from the table written out in full.
C8_ShorthandFull ==
    Constructed =>
        LET t == args.table
            full == New([args EXCEPT !.table = Enumerated(t, Elems(Sigma))])
        IN  /\ \A q \in Elems(Q) : t.delta[q].kind = "pair" =>
                  \A a \in Elems(Sigma) :
                      Delta(q, a) = Meant(t, q, Elems(Sigma))[a]
            /\ full.err.kind = "none"
            /\ \A q \in Elems(Q), a \in Elems(Sigma) :
                  Delta(q, a) = Get(full.heap, Entry(full.delta, q), a)
            /\ sink_nodes = full.sink_nodes
            /\ SameAnswers(This, Instance(full))

\* no map object of the supplied table is shared by two entries
Unshared(t) == \A l \in Labels : t.delta[l] # NoEntry => t.delta[l].m = l

\* The statement of C8 does hold for the tables in which no map object is
\* shared between two entries.
C8_Unshared ==
    (Constructed /\ ~Unshared(args.table)) \/ C8_ShorthandFull

\* the positions of a list that hold the first occurrence of their element
FirstOccurrences(list) ==
    {i \in 1..Len(list) : \A j \in 1..(i - 1) : list[j] # list[i]}

\* the list with its later repetitions removed
RECURSIVE WithoutRepetitionsFrom(_, _)
WithoutRepetitionsFrom(list, i) ==
    IF i > Len(list) THEN <<>>
    ELSE (IF i \in FirstOccurrences(list) THEN <<list[i]>> ELSE <<>>)
            \o WithoutRepetitionsFrom(list, i + 1)

WithoutRepetitions(list) == WithoutRepetitionsFrom(list, 1)

C10_InitialAndAccept ==
    /\ op = "construct" =>
          ((args.q0 \notin Elems(args.Q) \/ ~(Elems(args.F) \subseteq Elems(args.Q)))
              => result.kind = "throw")
    /\ pc = "ready" =>
          (q0 \in Elems(Q) /\ Elems(F) \subseteq Elems(Q) /\ DupFree(F))

\* C10 witness: a table that is in order, q0 in Q, and construction failed
\* on an accept state that is not in Q
C10_Witness ==
    /\ op = "construct" /\ result.kind = "throw"
    /\ result.err = ErrState("e")
    /\ args.Q = <<"q0">> /\ args.q0 = "q0" /\ args.F = <<"q0", "e">>
    /\ args.table.keys = <<"q0">>
    /\ args.table.delta["q0"] = PairEntry("q0", "q0")

\* the entry the supplied table t has for state q is defective, for the
\* states Qs and the symbols S: it is missing, it is neither a map nor a
\* pair, it is a pair with a default outside Qs, with a key outside S or
\* with a target outside Qs, or it is a map that sends a symbol of S to
\* nothing or outside Qs
Defective(t, q, Qs, S) ==
    LET e == Entry(t.delta, q)
    IN  \/ e.kind \in {"undefined", "scalar", "list"}
        \/ /\ e.kind = "pair"
           /\ \/ e.d \notin Qs
              \/ \E a \in Chars :
                    /\ t.heap[e.m][a] # Undef
                    /\ (a \notin S \/ t.heap[e.m][a] \notin Qs)
        \/ /\ e.kind = "object"
           /\ \E a \in S : t.heap[e.m][a] \notin Qs

\* the error err is one that the entry of state q in the supplied table t
\* can give rise to: an error that names q, or one of the errors of the
\* validation of q's short-hand pair
About(err, t, q) ==
    LET e == Entry(t.delta, q)
    IN  \/ /\ err.kind \in {"missing_state", "invalid_entry",
                            "missing_transition", "ambiguous"}
           /\ err.state = q
        \/ /\ e.kind = "pair"
           /\ \/ err = ErrState(e.d)
              \/ \E a \in Chars :
                    /\ t.heap[e.m][a] # Undef
                    /\ err \in {ErrChar(a), ErrState(t.heap[e.m][a])}

\* the arguments of the last construction other than the table are in
\* order, and every key of the table is a state of Q
TableOnly ==
    /\ op = "construct"
    /\ Elems(args.table.keys) \subseteq Elems(args.Q)
    /\ args.q0 \in Elems(args.Q)
    /\ Elems(args.F) \subseteq Elems(args.Q)

\* the positions of Q's normalized order at which the supplied table is
\* defective
DefectivePositions ==
    {i \in 1..Len(WithoutRepetitions(args.Q)) :
        Defective(args.table, WithoutRepetitions(args.Q)[i],
                  Elems(args.Q), Elems(args.Sigma))}

\* the table holds no array of another length than two
NoListEntry ==
    \A l \in DOMAIN args.table.delta : args.table.delta[l].kind # "list"

\* C11: when the entries of states of Q are defective (missing, no map and
\* no pair, a pair with an invalid default, an unknown symbol or an invalid
\* target, a map with a missing or invalid target), construction fails and
\* the error raised is one of the earliest defective state in Q's order,
\* whatever the kinds of the defects and the order of the table's keys.
C11_EarliestInQOrder ==
    (TableOnly /\ NoListEntry /\ DefectivePositions # {}) =>
        /\ result.kind = "throw"
        /\ \E i \in DefectivePositions :
              /\ \A j \in DefectivePositions : i <= j
              /\ About(result.err, args.table, WithoutRepetitions(args.Q)[i])

\* the positions of Q's normalized order whose state has no entry in the
\* supplied table
MissingPositions ==
    {i \in 1..Len(WithoutRepetitions(args.Q)) :
        Entry(args.table.delta, WithoutRepetitions(args.Q)[i]) = NoEntry}

Malformed(i) ==
    Entry(args.table.delta, WithoutRepetitions(args.Q)[i]).kind
        \in {"scalar", "list"}

\* C13: an entry that is neither a full map nor a two-element pair (a
\* string, a number, a boolean, an empty array, an array of three) makes
\* construction fail with the malformed-entry error, which names a state
\* with such an entry, for every alphabet, the empty one included.  (The
\* table has no defect of another kind.)
C13_Malformed ==
    (TableOnly /\ DefectivePositions # {}
        /\ \A i \in DefectivePositions : Malformed(i)) =>
        /\ result.kind = "throw"
        /\ result.err.kind = "invalid_entry"
        /\ \E i \in DefectivePositions :
              result.err.state = WithoutRepetitions(args.Q)[i]

\* the least element of a non-empty set of positions
Least(S) == CHOOSE i \in S : \A j \in S : i <= j

\* the error kind the claims give to a value found where a target state is
\* expected: nothing, something that is not a string, a label outside Q
KindOf(v) ==
    IF v = Undef THEN "missing_transition"
    ELSE IF v = NonString THEN "invalid_transition_type"
    ELSE "ambiguous"

\* C14: for a state with a full map the symbols are checked in Σ's order
\* and the first defective symbol decides the error, of one of three
\* distinguishable kinds: a missing transition (no value), an invalid
\* transition type (a value that is not a string), an invalid target (a
\* label outside Q), each naming the state and the symbol.  (The table has
\* no defect but in full maps, so that the first defective state of Q's
\* order is the one the final check stops at.)
C14_FullMapKinds ==
    (TableOnly /\ DefectivePositions # {}
        /\ \A i \in DefectivePositions :
              Entry(args.table.delta, WithoutRepetitions(args.Q)[i]).kind
                 = "object") =>
        LET q == WithoutRepetitions(args.Q)[Least(DefectivePositions)]
            P == args.table.heap[args.table.delta[q].m]
            S == WithoutRepetitions(args.Sigma)
            j == Least({k \in 1..Len(S) : P[S[k]] \notin Elems(args.Q)})
        IN  /\ result.kind = "throw"
            /\ result.err.kind = KindOf(P[S[j]])
            /\ result.err.state = q
            /\ result.err.char = S[j]

\* the positions of the supplied table's keys whose value is refused when
\* the table is completed: no object, or a defective short-hand pair
RefusedKeys ==
    {k \in 1..Len(args.table.keys) :
        LET e == args.table.delta[args.table.keys[k]]
        IN  \/ e.kind = "scalar"
            \/ /\ e.kind = "pair"
               /\ Defective(args.table, args.table.keys[k],
                            Elems(args.Q), Elems(args.Sigma))}

\* the error of the first violation of the short-hand pair (P, d): the
\* default first, then the keys of P in P's key order, for each key the
\* symbol before the target
PairError(P, d, Qs, S) ==
    IF d \notin Qs THEN ErrState(d)
    ELSE LET a == CharOrder[Least({i \in 1..Len(CharOrder) :
                         /\ P[CharOrder[i]] # Undef
                         /\ (CharOrder[i] \notin S \/ P[CharOrder[i]] \notin Qs)})]
         IN  IF a \notin S THEN ErrChar(a) ELSE ErrState(P[a])

\* C15: a short-hand pair (P, d) is validated default first, then the keys
\* of P in P's key order, for each key its membership in Σ before the
\* membership of its target in Q, and the first violation decides the
\* error: the state error of d, the symbol error of the key, the state
\* error of the target.  An invalid default fails construction even when P
\* lists every symbol.  (The pair is the first value the completion of the
\* table refuses, in a table whose keys are states of Q.)
C15_PairOrder ==
    (op = "construct" /\ Elems(args.table.keys) \subseteq Elems(args.Q)
        /\ RefusedKeys # {}
        /\ args.table.delta[args.table.keys[Least(RefusedKeys)]].kind = "pair")
    =>
        LET e == args.table.delta[args.table.keys[Least(RefusedKeys)]]
        IN  /\ result.kind = "throw"
            /\ result.err = PairError(args.table.heap[e.m], e.d,
                                      Elems(args.Q), Elems(args.Sigma))

\* C15 witness: construction failed on the default of a pair whose map
\* lists every symbol of the alphabet, with valid targets
C15_Witness ==
    /\ op = "construct" /\ result.kind = "throw"
    /\ result.err = ErrState("q0")
    /\ args.Q = <<"e", "q1">> /\ args.Sigma = <<"0", "1">>
    /\ args.table.keys = <<"e">>
    /\ args.table.delta["e"] = PairEntry("e", "q0")
    /\ args.table.heap["e"] = [c \in Chars |-> "q1"]

\* C15 second witness: with a valid default, the first key of the map is
\* outside the alphabet and its target, like that of the second key, is
\* outside Q, and construction failed on the symbol
C15_WitnessKey ==
    /\ op = "construct" /\ result.kind = "throw"
    /\ result.err = ErrChar("0")
    /\ args.Q = <<"e", "q0">> /\ args.Sigma = <<"1">>
    /\ args.table.delta["e"] = PairEntry("e", "q0")
    /\ args.table.heap["e"] = [c \in Chars |-> "q1"]

\* C16: construction leaves the table the caller passed as it was, whether
\* it returns or throws: the same keys, each pair still a pair, each map
\* with the keys and targets it had.
C16_TableUntouched ==
    op = "construct" =>
        /\ keys = args.table.keys
        /\ delta = args.table.delta
        /\ heap = args.table.heap

\* C17: once construction has returned, no change the caller makes to the
\* objects it passed (the lists, the table, the maps of the table) changes
\* what read and test return, for any input.
C17_Immutable ==
    [][op' \in {"write", "write_list"} =>
          \A w \in Inputs :
             /\ read(This, w)' = read(This, w)
             /\ test(This, w)' = test(This, w)]_vars

\* C18: read and test change none of Q, Σ, δ, q0, F and sink_nodes, and
\* what an invocation returns is the answer of the automaton as it was
\* constructed for that input, whatever calls were made before it.
C18_ReadOnly ==
    [][op' \in {"read", "test"} =>
          /\ UNCHANGED <<keys, delta, heap, Q, Sigma, q0, F, sink_nodes>>
          /\ result' = (IF op' = "read" THEN read(This, args')
                        ELSE test(This, args'))
          /\ result' = (IF op = "read" THEN read(This, args)
                        ELSE test(This, args))']_vars

\* C18 witness: after other calls, test accepted a one-character input on
\* an automaton of two states with a sink that rejects the empty input
C18_Witness ==
    /\ op = "test" /\ result.kind = "return" /\ result.value = TRUE
    /\ Len(args) = 1 /\ Len(Q) = 2 /\ sink_nodes # <<>>
    /\ ~Includes(F, q0)

\* C19: under every interleaving of the steps of several invocations of
\* read and test on one instance, each invocation hands to its caller what
\* it hands when it runs alone on that instance and input.
C19_Interleaving ==
    \A p \in CallIds :
        scan[p].pc = "done" =>
            scan[p].result = (IF scan[p].kind = "read"
                              THEN read(This, scan[p].input)
                              ELSE test(This, scan[p].input))

\* C19 witness: an invocation of read on a two-character input has ended
\* out of q0, in a state that is no sink, and another invocation, on another
\* input, took steps while it was under way and is in another state, in the
\* middle of its scan
C19_Witness ==
    \E p, r \in CallIds :
       /\ scan[p].pc = "done" /\ scan[p].kind = "read"
       /\ scan[p].overlapped /\ Len(scan[p].input) = 2
       /\ scan[p].result.kind = "return" /\ scan[p].result.value # q0
       /\ ~Includes(sink_nodes, scan[p].result.value)
       /\ scan[r].pc = "scanning" /\ scan[r].overlapped /\ scan[r].i = 2
       /\ scan[r].input # scan[p].input
       /\ scan[r].currentState # scan[p].result.value

\* the values an error message is made of
Mentions(err) ==
    IF err.kind \in {"state_not_in_Q", "missing_state", "invalid_entry"}
    THEN {err.state}
    ELSE IF err.kind = "symbol_not_in_Sigma" THEN {err.char}
    ELSE IF err.kind = "missing_transition" THEN {err.state, err.char}
    ELSE IF err.kind = "ambiguous" THEN {err.state, err.char, err.next}
    ELSE {}

\* C20: the error of a failed construction identifies a state whose entry
\* is defective; in particular, when the table is refused for a short-hand
\* pair, the error carries the state of the pair and, unless the default is
\* at fault, the symbol at fault.  (The other arguments are in order and
\* the keys of the table are states of Q.)
C20_ErrorNamesState ==
    (TableOnly /\ result.kind = "throw") =>
        /\ \E q \in Elems(args.Q) :
              /\ Defective(args.table, q, Elems(args.Q), Elems(args.Sigma))
              /\ q \in Mentions(result.err)
        /\ (RefusedKeys # {}
              /\ args.table.delta[args.table.keys[Least(RefusedKeys)]].kind
                    = "pair") =>
              LET q == args.table.keys[Least(RefusedKeys)]
                  e == args.table.delta[q]
              IN  /\ q \in Mentions(result.err)
                  /\ e.d \in Elems(args.Q) =>
                        \E a \in Chars :
                           /\ args.table.heap[e.m][a] # Undef
                           /\ a \in Mentions(result.err)

\* the position of the leftmost character of w that is outside Σ
FirstOutside(w) == Least({i \in 1..Len(w) : w[i] \notin Elems(Sigma)})

\* C21: when read fails on an input, the error identifies the leftmost
\* character of the input that is outside Σ and its position: the error
\* holds that character, and no input whose leftmost character outside Σ
\* is at another position fails with the same error.
C21_ErrorPosition ==
    (op = "read" /\ result.kind = "throw") =>
        /\ result.err = ErrChar(args[FirstOutside(args)])
        /\ \A w \in Inputs :
              read(This, w) = result => FirstOutside(w) = FirstOutside(args)

\* how many times the character c occurs in w
Count(w, c) == Cardinality({i \in 1..Len(w) : w[i] = c})

\* C22: the construction of the parity automaton A000 succeeds with an
\* empty sink set, and for every string w over {0,1} test(w) is true if and
\* only if w has an even number of zeroes and an odd number of ones (read
\* returns the state that stands for the two parities).
C22_Parity ==
    /\ (op = "construct" /\ args = A000) =>
          (result.kind = "return" /\ sink_nodes = <<>>)
    /\ (op = "test" /\ Q = A000.Q) =>
          result = [kind |-> "return",
                    value |-> (Count(args, "0") % 2 = 0
                                  /\ Count(args, "1") % 2 = 1)]
    /\ (op = "read" /\ Q = A000.Q) =>
          result = [kind |-> "return",
                    value |-> IF Count(args, "0") % 2 = 0
                              THEN (IF Count(args, "1") % 2 = 0
                                    THEN "q0" ELSE "q2")
                              ELSE (IF Count(args, "1") % 2 = 0
                                    THEN "q1" ELSE "q3")]

\* C22 witness: A000 rejected "0011"
C22_Witness ==
    /\ op = "test" /\ Q = A000.Q /\ sink_nodes = <<>>
    /\ args = <<"0", "0", "1", "1">> /\ result.value = FALSE

\* w is empty or alternates zeroes and ones from a zero
Alternates(w) ==
    \A i \in 1..Len(w) : w[i] = (IF i % 2 = 1 THEN "0" ELSE "1")

\* C23: the construction of the alternating-pattern automaton A001
\* succeeds with the sink set {e}, and for every string w over {0,1}
\* test(w) is true if and only if w is empty or alternates 0,1,0,1,...
\* from a zero; read returns e for every other string, "00" among them.
C23_Alternating ==
    /\ (op = "construct" /\ args = A001) =>
          (result.kind = "return" /\ sink_nodes = <<"e">>)
    /\ (op = "test" /\ Q = A001.Q) =>
          result = [kind |-> "return", value |-> Alternates(args)]
    /\ (op = "read" /\ Q = A001.Q) =>
          /\ result.kind = "return"
          /\ (result.value = "e") <=> ~Alternates(args)

\* C23 witness: read("00") returned e on A001
C23_Witness ==
    /\ op = "read" /\ Q = A001.Q /\ sink_nodes = <<"e">>
    /\ args = <<"0", "0">> /\ result = [kind |-> "return", value |-> "e"]

\* the length of the shortest prefix of w after which the state is a sink
\* node, or the length of w if there is none
SinkPrefix(w) ==
    Least({k \in 0..Len(w) : Run(w, k) \in Elems(sink_nodes)} \cup {Len(w)})

\* what C24 says of the transitions an invocation of read has taken
TransitionsOf(l) ==
    LET n == l.i - 1
    IN  /\ n <= Len(l.input)
        /\ \A k \in 0..(n - 1) : Run(l.input, k) \notin Elems(sink_nodes)
        /\ l.pc = "scanning" => l.currentState = Run(l.input, n)
        /\ l.pc = "done" => n = SinkPrefix(l.input)

\* C24: read scans left to right and stops at the first sink: it takes one
\* table transition per character while the current state is no sink node
\* and none afterwards, so that the transitions it has taken when it ends
\* are as many as the shortest prefix after which the state is a sink node
\* is long, or as the input if there is none; and every scan ends.
C24_Transitions ==
    /\ [](\A p \in CallIds :
             (scan[p].pc \in {"scanning", "done"} /\ OverSigma(scan[p].input))
                 => TransitionsOf(scan[p]))
    /\ \A p \in CallIds :
          (scan[p].pc = "scanning") ~> (scan[p].pc = "done")

\* C24 witness: a scan of a two-character input has ended after one
\* transition, in a sink node
C24_Witness ==
    \E p \in CallIds :
       /\ scan[p].pc = "done" /\ scan[p].kind = "read"
       /\ Len(scan[p].input) = 2 /\ scan[p].i = 2
       /\ scan[p].result.kind = "return"
       /\ Includes(sink_nodes, scan[p].result.value)
       /\ ~Includes(sink_nodes, q0)

\* the states of Q that the table given to the constructor declared by a
\* short-hand pair
DeclaredByPair ==
    {q \in Elems(Q) : Entry(args.table.delta, q).kind = "pair"}

\* C25: in the single-pass variant a state declared by a short-hand pair
\* is among the sink nodes if and only if its completed entry sends every
\* symbol of Σ to the state itself.
C25_ShorthandSinks ==
    Constructed =>
        \A q \in DeclaredByPair :
            Includes(sink_nodes, q) <=> \A a \in Elems(Sigma) : Delta(q, a) = q

\* C26: in the single-pass variant read returns, for every input over Σ,
\* the state that the completed table leads to from q0 when every
\* character is applied.
C26_EarlyExitSinglePass ==
    (pc = "ready" /\ op = "read" /\ OverSigma(args)) =>
        /\ result.kind = "return"
        /\ result.value = Run(args, Len(args))

\* C27: when the constructor of the earliest variant has returned, the
\* table gives for every state of Q and every symbol of Σ a state of Q,
\* and compute returns, for every input over Σ, a final state of Q.
C27_TotalEarliest ==
    /\ Constructed =>
          \A q \in Elems(Q) : \A a \in Elems(Sigma) : Delta(q, a) \in Elems(Q)
    /\ (pc = "ready" /\ op = "compute" /\ OverSigma(args)) =>
          /\ result.kind = "return"
          /\ result.value.final_state \in Elems(Q)

\* the strings over Σ that a query input is extended by
Extensions == {v \in Inputs : OverSigma(v)}

\* C28: sink nodes are absorbing.  When read(w) has returned a state of
\* sink_nodes, then for every string v over Σ read(w·v) returns the same
\* state, which is also the state the table leads to when every character
\* of w·v is applied, and test(w·v) equals test(w).
C28_Absorbing ==
    (pc = "ready" /\ op = "read" /\ result.kind = "return"
        /\ Includes(sink_nodes, result.value)) =>
        \A v \in Extensions :
            /\ read(This, args \o v) = result
            /\ Run(args \o v, Len(args) + Len(v)) = result.value
            /\ test(This, args \o v) = test(This, args)

\* C28 witness: read has come to a sink node by a transition and returned
\* it, and the input can be extended by two characters
C28_Witness ==
    /\ pc = "ready" /\ op = "read" /\ result.kind = "return"
    /\ Includes(sink_nodes, result.value) /\ ~Includes(sink_nodes, q0)
    /\ Len(args) = 1
    /\ \E v \in Extensions : Len(v) = 2 /\ v[1] # v[2]

\* the arguments of a constructor call over the empty alphabet are well
\* formed: the table has no key outside Q, every state of Q has an entry
\* that is a map in full or a short-hand pair of an empty map and a
\* default state of Q, the initial state is in Q and so are the accept
\* states
WellFormedOverNothing(a) ==
    /\ \A i \in 1..Len(a.table.keys) : Includes(a.Q, a.table.keys[i])
    /\ \A q \in Elems(a.Q) :
          LET t == Entry(a.table.delta, q)
          IN  \/ t.kind = "object"
              \/ /\ t.kind = "pair"
                 /\ MapKeys(a.table.heap[t.m]) = <<>>
                 /\ Includes(a.Q, t.d)
    /\ Includes(a.Q, a.q0)
    /\ \A i \in 1..Len(a.F) : Includes(a.Q, a.F[i])

\* C29: over the empty alphabet the construction succeeds exactly when the
\* arguments are well formed, and then every state of Q is a sink node;
\* read("") returns q0 and read of every other string throws (the error of
\* its first character).
C29_EmptyAlphabet ==
    /\ (op = "construct" /\ Dedup(args.Sigma) = <<>>) =>
          /\ result.kind = "return" <=> WellFormedOverNothing(args)
          /\ result.kind = "return" => sink_nodes = Dedup(args.Q)
    /\ (pc = "ready" /\ op = "read" /\ Sigma = <<>>) =>
          IF args = <<>> THEN result = [kind |-> "return", value |-> q0]
          ELSE result = [kind |-> "throw", err |-> ErrChar(args[1])]

\* C29 witness: an automaton of two states over the empty alphabet, one
\* declared by a map in full and one by a short-hand pair, has both among
\* its sink nodes
C29_Witness ==
    /\ Constructed /\ Sigma = <<>> /\ Len(Q) = 2 /\ sink_nodes = Q
    /\ \E q \in Elems(Q) : Entry(args.table.delta, q).kind = "pair"
    /\ \E q \in Elems(Q) : Entry(args.table.delta, q).kind = "object"

\* C29 witness: read of a non-empty string has thrown over the empty
\* alphabet
C29_WitnessRead ==
    /\ pc = "ready" /\ op = "read" /\ Sigma = <<>> /\ Len(sink_nodes) = 2
    /\ args # <<>> /\ result.kind = "throw"

\* the word occurs in w as a contiguous substring
Contains(w, word) ==
    \E i \in 1..(Len(w) - Len(word) + 1) :
        SubSeq(w, i, i + Len(word) - 1) = word

\* C30: the construction of A003 returns with "5" as its only sink node,
\* and test(w) is true if and only if w contains the word "script".
C30_Script ==
    /\ op = "construct" =>
          /\ result.kind = "return"
          /\ sink_nodes = <<"5">>
          /\ \A q \in Elems(Q) : \A a \in Elems(Sigma) : Delta(q, a) \in Elems(Q)
    /\ op = "test" =>
          result = [kind |-> "return", value |-> Contains(args, Script)]

\* C30 witness: test has accepted an input in which the word comes after
\* a first s and before another character
C30_Witness ==
    /\ op = "test" /\ sink_nodes = <<"5">>
    /\ args = <<"s", "s", "c", "r", "i", "p", "t", "a">>
    /\ result.value = TRUE

\* C31: expanding the short-hand pair of one state leaves the completed
\* entries of the other states alone: every state q declared by a pair
\* (P, d), whether or not P is also the map of another entry, ends with
\* the entry that sends the symbols P listed to the targets listed and
\* every other symbol of Σ to d.
C31_OwnDefault ==
    Constructed =>
        \A q \in DeclaredByPair :
            \A a \in Elems(Sigma) :
                Delta(q, a) = Meant(args.table, q, Elems(Sigma))[a]

\* the positions of the supplied table's keys that are no state of Q
OutsideKeys ==
    {k \in 1..Len(args.table.keys) :
        args.table.keys[k] \notin Elems(args.Q)}

\* C32: when the supplied table has a key that is no state of Q, the
\* construction fails with the invalid-state error of the first such key,
\* whatever the entries are, and no entry has been expanded: the table and
\* its maps are as the caller supplied them.
C32_KeysFirst ==
    (op = "construct" /\ OutsideKeys # {}) =>
        /\ result = [kind |-> "throw",
                     err |-> ErrState(args.table.keys[Least(OutsideKeys)])]
        /\ delta = args.table.delta
        /\ heap = args.table.heap

\* C32 witness: the only state of Q has a valid map in full, before a key
\* outside Q whose value is no object, and the construction failed
C32_Witness ==
    /\ op = "construct" /\ result.kind = "throw"
    /\ args.Q = <<"q1">> /\ args.Sigma = <<"0", "1">>
    /\ args.table.keys = <<"q1", "q0">>
    /\ args.table.delta["q1"].kind = "object"
    /\ args.table.heap["q1"] = [c \in Chars |-> "q1"]
    /\ args.table.delta["q0"] = ScalarEntry

\* C32 second witness: a valid short-hand pair comes before the key outside
\* Q and has not been expanded
C32_WitnessPair ==
    /\ op = "construct" /\ result.kind = "throw"
    /\ args.Q = <<"q1">> /\ args.Sigma = <<"0", "1">>
    /\ args.table.keys = <<"q1", "e">>
    /\ args.table.delta["q1"] = PairEntry("q1", "q1")
    /\ delta["q1"].kind = "pair" /\ heap["q1"] = EmptyMap

\* the supplied table t without the keys outside S in its maps in full
Stripped(t, S) ==
    [t EXCEPT !.heap =
        [l \in DOMAIN t.heap |->
            IF t.delta[l].kind = "object"
            THEN [a \in Chars |-> IF a \in S THEN t.heap[l][a] ELSE Undef]
            ELSE t.heap[l]]]

\* the keys of the map P that are no symbols of S
ForeignSymbols(P, S) == {a \in Chars : P[a] # Undef /\ a \notin S}

\* the positions of the supplied table's keys whose value is a short-hand
\* pair with a key outside Σ in its map
PairsWithForeignSymbol ==
    {k \in 1..Len(args.table.keys) :
        LET e == args.table.delta[args.table.keys[k]]
        IN  /\ e.kind = "pair"
            /\ ForeignSymbols(args.table.heap[e.m], Elems(args.Sigma)) # {}}

\* the short-hand pair e of the supplied table has no defect but keys
\* outside Σ
ForeignSymbolOnly(e) ==
    /\ e.kind = "pair" /\ e.d \in Elems(args.Q)
    /\ ForeignSymbols(args.table.heap[e.m], Elems(args.Sigma)) # {}
    /\ \A a \in Chars : args.table.heap[e.m][a] \in Elems(args.Q) \cup {Undef}

\* C33: keys outside Σ are ignored in a map in full and refused in the map
\* of a short-hand pair.  A construction from a table that shares no map
\* ends as the construction from the same table without the keys outside
\* Σ in its maps in full does: the same error or, if none, the same sink
\* nodes and the same answers of read and test.  A construction from a
\* table in which the map of a pair has a key outside Σ fails, and with
\* the symbol error of the first such key when the keys of the table are
\* states of Q and that pair is the first value refused and has no other
\* defect.
C33_ForeignSymbols ==
    op = "construct" =>
        /\ Unshared(args.table) =>
              LET bare == New([args EXCEPT !.table =
                                  Stripped(args.table, Elems(args.Sigma))])
              IN  /\ bare.err = (IF result.kind = "throw" THEN result.err
                                 ELSE NoErr)
                  /\ result.kind = "return" =>
                        /\ sink_nodes = bare.sink_nodes
                        /\ SameAnswers(This, Instance(bare))
        /\ PairsWithForeignSymbol # {} =>
              /\ result.kind = "throw"
              /\ (/\ OutsideKeys = {}
                  /\ ForeignSymbolOnly(
                         args.table.delta[args.table.keys[Least(RefusedKeys)]]))
                 => LET e == args.table.delta[
                                 args.table.keys[Least(RefusedKeys)]]
                        P == args.table.heap[e.m]
                        a == CharOrder[Least({j \in 1..Len(CharOrder) :
                                 CharOrder[j] \in
                                    ForeignSymbols(P, Elems(args.Sigma))})]
                    IN  result.err = ErrChar(a)

\* C33 witness: a map in full with a key outside Σ has been accepted, its
\* state is a sink node although the foreign key leads elsewhere
C33_Witness ==
    /\ Constructed /\ Q = <<"q0", "e">> /\ Sigma = <<"0">>
    /\ args.table.delta["q0"] = ObjectEntry("q0")
    /\ args.table.heap["q0"] = ("0" :> "q0" @@ "1" :> "e")
    /\ Includes(sink_nodes, "q0")

\* C33 second witness: the same map in a short-hand pair has made the
\* construction fail with the symbol error
C33_WitnessPair ==
    /\ op = "construct" /\ args.Q = <<"q0", "e">> /\ args.Sigma = <<"0">>
    /\ args.table.delta["q0"] = PairEntry("q0", "q0")
    /\ args.table.heap["q0"] = ("0" :> "q0" @@ "1" :> "e")
    /\ result = [kind |-> "throw", err |-> ErrChar("1")]

=============================================================================
